---- MODULE Spec2Model ----
(***************************************************************************)
(* The multiplexed request/reply transport of turn_node                    *)
(* (src/turn_node/src/controls/transport.rs): one Transport over a duplex  *)
(* byte stream, its callers (call), its handler tasks (bind), its dispatch *)
(* loop (run/poll) and the peer at the other end of the stream.            *)
(*                                                                         *)
(* Bytes are numbers 0..255 and a u32 is its four big-endian bytes, as on  *)
(* the wire, so that the whole u32 range is representable.                 *)
(***************************************************************************)
EXTENDS Integers, Sequences, FiniteSets, TLC

----------------------------------------------------------------------------
(* Bounds of the model *)

\* replies and errors the answering peer sends
MaxAnswers == 2
\* requests the requesting peer sends
MaxRequests == 2
\* frames the peer sends to the dispatch loop read in pieces
MaxFrames == 2
\* handler registrations (calls of bind)
MaxBinds == 2
\* invocations of call
MaxCalls == 2

(* Program constants *)

FlagRequest == 0
FlagReply == 1
FlagError == 2
\* the fixed header: u32 length, u8 kind, u8 flag, u32 id
HeaderLen == 10

----------------------------------------------------------------------------
(* The tasks *)

\* the tasks that invoke call, each once
Callers == {<<"call", n>> : n \in 1 .. MaxCalls}
\* the handler tasks, one per invocation of bind
Handlers == {<<"bind", n>> : n \in 1 .. MaxBinds}
\* the tasks spawned by run
Loops == {<<"run", 1>>, <<"run", 2>>}
\* the tasks that call send
Writers == Callers \cup Handlers
NoTask == <<"none", 0>>

\* the kinds the model's calls and binds use
Kinds == {1, 2}

----------------------------------------------------------------------------
(* u32 values as four big-endian bytes *)

U32Zero == <<0, 0, 0, 0>>
U32Max == <<255, 255, 255, 255>>

\* BufMut::put_u32 of a length
PutU32(n) ==
    <<(n \div 16777216) % 256, (n \div 65536) % 256, (n \div 256) % 256, n % 256>>

\* u32::from_be_bytes of the first four bytes of b; only used where b[1] < 128
\* (the checker's integers are 32-bit signed)
U32FromBe(b) == ((b[1] * 256 + b[2]) * 256 + b[3]) * 256 + b[4]

\* u + 1 for u below u32::MAX
U32Succ(u) ==
    IF u[4] < 255 THEN <<u[1], u[2], u[3], u[4] + 1>>
    ELSE IF u[3] < 255 THEN <<u[1], u[2], u[3] + 1, 0>>
    ELSE IF u[2] < 255 THEN <<u[1], u[2] + 1, 0, 0>>
    ELSE <<u[1] + 1, 0, 0, 0>>

\* NextUid with the step left out
NextUidStuck(u) == u

\* NextUid resuming at 1 after the maximum
NextUidSkipsZero(u) == IF u = U32Max THEN U32Succ(U32Zero) ELSE U32Succ(u)

\* call, line 213: uid.inner = if uid.inner >= u32::MAX { 0 } else { uid.inner + 1 }
NextUid(u) == IF u = U32Max THEN U32Zero ELSE U32Succ(u)

Id(n) == PutU32(n)

----------------------------------------------------------------------------
(* The payload format: serde_json on the values the model uses.  A payload *)
(* is a one-digit JSON number, or Unserializable, a value whose Serialize  *)
(* implementation fails.                                                   *)

Unserializable == 0 - 1
Digits == 0 .. 9

\* Json::to_vec / Json::to_string
JsonOk(v) == v \in Digits
JsonToVec(v) == <<48 + v>>

\* Json::from_slice into a number
JsonParses(b) == Len(b) = 1 /\ b[1] \in 48 .. 57
JsonFromSlice(b) == b[1] - 48

\* std::str::from_utf8: is b well-formed UTF-8
RECURSIVE Utf8Valid(_)
Utf8Valid(b) ==
    IF b = <<>> THEN TRUE
    ELSE LET n == Len(b)
             Cont(i) == i <= n /\ b[i] \in 128 .. 191
             Rest(k) == Utf8Valid(SubSeq(b, k + 1, n))
         IN  IF b[1] < 128 THEN Rest(1)
             ELSE IF b[1] \in 194 .. 223 THEN Cont(2) /\ Rest(2)
             ELSE IF b[1] = 224 THEN n >= 3 /\ b[2] \in 160 .. 191 /\ Cont(3) /\ Rest(3)
             ELSE IF b[1] \in (225 .. 236) \cup {238, 239} THEN Cont(2) /\ Cont(3) /\ Rest(3)
             ELSE IF b[1] = 237 THEN n >= 3 /\ b[2] \in 128 .. 159 /\ Cont(3) /\ Rest(3)
             ELSE IF b[1] = 240
                  THEN n >= 4 /\ b[2] \in 144 .. 191 /\ Cont(3) /\ Cont(4) /\ Rest(4)
             ELSE IF b[1] \in 241 .. 243 THEN Cont(2) /\ Cont(3) /\ Cont(4) /\ Rest(4)
             ELSE IF b[1] = 244
                  THEN n >= 4 /\ b[2] \in 128 .. 143 /\ Cont(3) /\ Cont(4) /\ Rest(4)
             ELSE FALSE

----------------------------------------------------------------------------
(* Frames and their encoding (send, lines 230-244) *)

Frame(k, f, i, b) == [kind |-> k, flag |-> f, id |-> i, body |-> b]

\* the header send builds: put_u32(len), put_u8(kind), put_u8(flag), put_u32(id)
EncodeHeader(fr) == PutU32(Len(fr.body)) \o <<fr.kind, fr.flag>> \o fr.id

\* header then body, as the two write_all calls put them on the stream
Encode(fr) == EncodeHeader(fr) \o fr.body

----------------------------------------------------------------------------
(* The decoder of poll (lines 281-313), on the Inbound Buffer buf *)

\* line 285: the loop breaks when buf.inner.len() <= 10
HeaderArrived(buf) == ~(Len(buf) <= HeaderLen)

\* lines 290-295: the declared body length (peeked, not consumed)
DeclaredSize(buf) == U32FromBe(buf)

\* line 298: the loop breaks when size + 10 > buf.inner.len().  A first byte
\* of 128 or more declares over 2^31 bytes, more than any buffer here holds.
BodyArrived(buf) ==
    buf[1] < 128 /\ ~(DeclaredSize(buf) + HeaderLen > Len(buf))

\* both checks passed: the loop goes on to decode the frame at the front
FrameReady(buf) == HeaderArrived(buf) /\ BodyArrived(buf)

\* Flag::try_from (lines 59-66, 311)
KnownFlag(b) == b \in {FlagRequest, FlagReply, FlagError}

\* lines 304-313: advance(4), get_u8, get_u8, get_u32, split_to(size)
FrontFrame(buf) ==
    Frame(buf[5], buf[6], SubSeq(buf, 7, 10),
          SubSeq(buf, HeaderLen + 1, HeaderLen + DeclaredSize(buf)))

\* what is left of the buffer once the front frame has been taken
AfterFrame(buf) == SubSeq(buf, HeaderLen + DeclaredSize(buf) + 1, Len(buf))

\* what is left when Flag::try_from fails: the length, kind and flag bytes
\* were consumed, the rest was not
AfterBadFlag(buf) == SubSeq(buf, 7, Len(buf))

----------------------------------------------------------------------------
(* The state *)

VARIABLES
    uid,         \* Transport.uid: the last id given out
    uidLock,     \* the caller holding the write guard on uid
    call_stack,  \* Transport.call_stack: id -> the caller owning the receiver
    listener,    \* Transport.listener: kind -> the handler task owning the receiver
    buffer,      \* Transport.buffer: the Inbound Buffer
    bufLock,     \* the loop holding the write guard on buffer
    wLock,       \* the task holding the write guard on inner_writer
    win,         \* bytes the peer has sent and inner_reader has not read yet
    wout,        \* every byte written to inner_writer, in order
    echoed,      \* how many bytes of wout the peer has reflected
    pc,          \* where each caller and each handler task stands
    out,         \* the frame a task inside send is writing
    ckind,       \* call's argument kind
    cdata,       \* call's argument data
    cid,         \* the id a call allocated
    slot,        \* the oneshot channel of each call
    result,      \* what call returned
    hkind,       \* bind's argument kind
    hbeh,        \* bind's argument handler
    queue,       \* the unbounded channel of each handler task
    dpc,         \* where each dispatch loop stands
    injected,    \* history: the frames the peer sent on its own account
    routed,      \* history: the frames poll decoded, with what became of them
    handled,     \* history: the requests the handler tasks took
    sent         \* history: the frames whose header send has written

vars == <<uid, uidLock, call_stack, listener, buffer, bufLock, wLock, win, wout,
          echoed, pc, out, ckind, cdata, cid, slot, result, hkind, hbeh, queue,
          dpc, injected, routed, handled, sent>>

callVars == <<ckind, cdata, cid, slot, result>>
bindVars == <<hkind, hbeh>>
loopVars == <<buffer, bufLock, dpc, routed>>
peerVars == <<win, echoed, injected>>
sendVars == <<wLock, wout, sent>>

NoFrame == Frame(0, 0, U32Zero, <<>>)

\* the handlers bind is given: one that returns its input, and ones that fail
Boom == <<98, 111, 111, 109>>
Echo == [fail |-> FALSE, msg |-> <<>>]
Fails(m) == [fail |-> TRUE, msg |-> m]
Behaviours == {Echo, Fails(Boom), Fails(<<>>)}

\* the payloads call is given
Payloads == {1, 2, Unserializable}

\* oneshot channel states: no channel yet, open, completed, receiver dropped,
\* sender dropped
Slot(st, b) == [st |-> st, body |-> b]
\* results of call
Res(st, v, m) == [st |-> st, val |-> v, msg |-> m]

Init ==
    /\ uid = U32Zero
    /\ uidLock = NoTask
    /\ call_stack = <<>>
    /\ listener = <<>>
    /\ buffer = <<>>
    /\ bufLock = NoTask
    /\ wLock = NoTask
    /\ win = <<>>
    /\ wout = <<>>
    /\ echoed = 0
    /\ pc = [w \in Writers |-> IF w \in Callers THEN "idle" ELSE "unbound"]
    /\ out = [w \in Writers |-> NoFrame]
    /\ ckind = [c \in Callers |-> 0]
    /\ cdata = [c \in Callers |-> 0]
    /\ cid = [c \in Callers |-> U32Zero]
    /\ slot = [c \in Callers |-> Slot("none", <<>>)]
    /\ result = [c \in Callers |-> Res("none", 0, <<>>)]
    /\ hkind = [h \in Handlers |-> 0]
    /\ hbeh = [h \in Handlers |-> Echo]
    /\ queue = [h \in Handlers |-> <<>>]
    /\ dpc = [l \in Loops |-> "off"]
    /\ injected = <<>>
    /\ routed = <<>>
    /\ handled = <<>>
    /\ sent = <<>>

----------------------------------------------------------------------------
(* call (lines 207-224) *)

\* Insert keeping the value a key already has
InsertIfAbsent(map, k, v) ==
    [x \in DOMAIN map \cup {k} |-> IF x \in DOMAIN map THEN map[x] ELSE v]

\* HashMap::insert / HashMap::remove
Insert(map, k, v) == [x \in DOMAIN map \cup {k} |-> IF x = k THEN v ELSE map[x]]
Remove(map, k) == [x \in DOMAIN map \ {k} |-> map[x]]

\* a task invokes call and awaits the guard on uid (line 212); the tasks
\* are taken in order
CallStart(c) ==
    /\ pc[c] = "idle"
    /\ \A b \in Callers : b[2] < c[2] => pc[b] # "idle"
    /\ pc' = [pc EXCEPT ![c] = "uid"]
    /\ UNCHANGED <<uid, uidLock, call_stack, listener, out, queue, handled>>
    /\ UNCHANGED <<callVars, bindVars, loopVars, peerVars, sendVars>>

\* line 212: self.uid.write().await is granted when no task holds the guard
UidFree == uidLock = NoTask

\* lines 212-218 of call(k, d): the guard on uid is taken (and kept in the
\* local uid until call returns), the id is stepped, the oneshot channel is
\* made and its sender inserted under the id (a sender already there is
\* replaced and so dropped), and the request is serialized; `?` returns when
\* that fails, dropping the guard and the receiver.
CallRegister(c, k, d) ==
    /\ pc[c] = "uid"
    /\ UidFree
    /\ ckind' = [ckind EXCEPT ![c] = k]
    /\ cdata' = [cdata EXCEPT ![c] = d]
    /\ LET id == NextUid(uid)
           old == IF id \in DOMAIN call_stack THEN {call_stack[id]} ELSE {}
           orphan(b) == b \in old /\ slot[b].st = "open"
       IN  /\ uid' = id
           /\ cid' = [cid EXCEPT ![c] = id]
           /\ call_stack' = Insert(call_stack, id, c)
           /\ IF JsonOk(d)
              THEN /\ slot' = [b \in Callers |->
                                 IF b = c THEN Slot("open", <<>>)
                                 ELSE IF orphan(b) THEN Slot("txdropped", <<>>)
                                 ELSE slot[b]]
                   /\ uidLock' = c
                   /\ out' = [out EXCEPT ![c] =
                                Frame(k, FlagRequest, id, JsonToVec(d))]
                   /\ pc' = [pc EXCEPT ![c] = "send"]
                   /\ UNCHANGED result
              ELSE /\ slot' = [b \in Callers |->
                                 IF b = c THEN Slot("rxdropped", <<>>)
                                 ELSE IF orphan(b) THEN Slot("txdropped", <<>>)
                                 ELSE slot[b]]
                   /\ uidLock' = NoTask
                   /\ result' = [result EXCEPT ![c] = Res("ser_err", 0, <<>>)]
                   /\ pc' = [pc EXCEPT ![c] = "done"]
                   /\ UNCHANGED out
    /\ UNCHANGED <<listener, queue, handled>>
    /\ UNCHANGED <<bindVars, loopVars, peerVars, sendVars>>

\* lines 221-223: reader.await has a value (or the sender was dropped); on
\* Ok(body) the body is deserialized; call returns and drops the guard on uid
CallReturn(c) ==
    /\ pc[c] = "wait"
    /\ slot[c].st \in {"ok", "err", "txdropped"}
    /\ result' = [result EXCEPT ![c] =
                    IF slot[c].st = "ok"
                    THEN IF JsonParses(slot[c].body)
                         THEN Res("ok", JsonFromSlice(slot[c].body), <<>>)
                         ELSE Res("de_err", 0, <<>>)
                    ELSE IF slot[c].st = "err"
                    THEN Res("app_err", 0, slot[c].body)
                    ELSE Res("recv_err", 0, <<>>)]
    /\ pc' = [pc EXCEPT ![c] = "done"]
    /\ uidLock' = IF uidLock = c THEN NoTask ELSE uidLock
    /\ UNCHANGED <<uid, call_stack, listener, out, ckind, cdata, cid, slot,
                   queue, handled>>
    /\ UNCHANGED <<bindVars, loopVars, peerVars, sendVars>>

\* line 221, the future of call dropped while it awaits its receiver (the
\* calling task is abandoned): its locals are dropped, the receiver and the
\* guard on uid among them; the entry stays in call_stack
CallAbandon(c) ==
    /\ pc[c] = "wait"
    /\ slot' = [slot EXCEPT ![c] = Slot("rxdropped", <<>>)]
    /\ pc' = [pc EXCEPT ![c] = "dropped"]
    /\ uidLock' = IF uidLock = c THEN NoTask ELSE uidLock
    /\ UNCHANGED <<uid, call_stack, listener, out, ckind, cdata, cid, result,
                   queue, handled>>
    /\ UNCHANGED <<bindVars, loopVars, peerVars, sendVars>>

\* calls (lines 207-224) by tasks other than Callers, each made while no
\* call holds the guard on uid, answered by the peer and returned: each steps
\* uid, inserts its entry and has it removed by its reply, so together they
\* leave the transport as it was but for uid, which they bring to t.  They
\* pass no id that is a key of call_stack, and their frames are left out of
\* the histories.
CallsElsewhere(t) ==
    /\ UidFree
    /\ \E l \in Loops : dpc[l] = "idle"
    /\ t # uid
    /\ DOMAIN call_stack \subseteq {uid}
    /\ uid' = t
    /\ UNCHANGED <<uidLock, call_stack, listener, pc, out, queue, handled>>
    /\ UNCHANGED <<callVars, bindVars, loopVars, peerVars, sendVars>>

----------------------------------------------------------------------------
(* send (lines 230-244), by a caller or by a handler task *)

\* WriterFree with no guard taken on the write half
WriterUnguarded == TRUE

\* line 232: self.inner_writer.write().await is granted when no task holds it
WriterFree == wLock = NoTask

\* lines 232-239: the guard on the write half is taken and the header written
SendHeader(w) ==
    /\ pc[w] = "send"
    /\ WriterFree
    /\ wLock' = w
    /\ wout' = wout \o EncodeHeader(out[w])
    /\ sent' = Append(sent, out[w])
    /\ pc' = [pc EXCEPT ![w] = "body"]
    /\ UNCHANGED <<uid, uidLock, call_stack, listener, out, queue, handled>>
    /\ UNCHANGED <<callVars, bindVars, loopVars, peerVars>>

\* lines 240-243: the body is written, the stream flushed, the guard dropped;
\* call goes on to await its receiver, a handler task to its next request
SendBody(w) ==
    /\ pc[w] = "body"
    /\ wout' = wout \o out[w].body
    /\ wLock' = IF wLock = w THEN NoTask ELSE wLock
    /\ pc' = [pc EXCEPT ![w] = IF w \in Callers THEN "wait" ELSE "recv"]
    /\ UNCHANGED <<uid, uidLock, call_stack, listener, out, queue, handled, sent>>
    /\ UNCHANGED <<callVars, bindVars, loopVars, peerVars>>

----------------------------------------------------------------------------
(* bind (lines 163-189) and listen_hook (lines 251-270) *)

\* lines 170-173: the channel is made, its sender stored under the kind
\* (replacing the one there) and the handler task spawned
Bind(h, k, beh) ==
    /\ pc[h] = "unbound"
    /\ \A g \in Handlers : g[2] < h[2] => pc[g] # "unbound"
    /\ listener' = Insert(listener, k, h)
    /\ hkind' = [hkind EXCEPT ![h] = k]
    /\ hbeh' = [hbeh EXCEPT ![h] = beh]
    /\ pc' = [pc EXCEPT ![h] = "recv"]
    /\ UNCHANGED <<uid, uidLock, call_stack, out, queue, handled>>
    /\ UNCHANGED <<callVars, loopVars, peerVars, sendVars>>

\* HookFrame with the flag of the Ok arm in both arms
HookFrameAlwaysReply(k, id, beh, q) ==
    IF beh.fail THEN Frame(k, FlagReply, id, beh.msg)
    ELSE Frame(k, FlagReply, id, JsonToVec(q))

\* listen_hook, lines 254-262: the flag and the body of the frame for a result
HookFrame(k, id, beh, q) ==
    IF beh.fail THEN Frame(k, FlagError, id, beh.msg)
    ELSE Frame(k, FlagReply, id, JsonToVec(q))

\* HandlerRecv taking the request that was queued last
HandlerRecvTakesLast(h) ==
    /\ pc[h] = "recv"
    /\ queue[h] # <<>>
    /\ LET m == queue[h][Len(queue[h])]
       IN  /\ queue' = [queue EXCEPT ![h] = SubSeq(queue[h], 1, Len(queue[h]) - 1)]
           /\ IF JsonParses(m.body)
              THEN /\ out' = [out EXCEPT ![h] =
                                HookFrame(hkind[h], m.id, hbeh[h], JsonFromSlice(m.body))]
                   /\ pc' = [pc EXCEPT ![h] = "send"]
                   /\ handled' = Append(handled,
                                   [id |-> m.id, body |-> m.body, by |-> h, took |-> TRUE])
              ELSE /\ handled' = Append(handled,
                                   [id |-> m.id, body |-> m.body, by |-> h, took |-> FALSE])
                   /\ UNCHANGED <<out, pc>>
    /\ UNCHANGED <<uid, uidLock, call_stack, listener>>
    /\ UNCHANGED <<callVars, bindVars, loopVars, peerVars, sendVars>>

\* lines 174-184: the task takes a request off its channel and deserializes
\* it; when that fails it goes on to the next request (line 181), otherwise
\* it runs the handler and enters send with the frame listen_hook builds
HandlerRecv(h) ==
    /\ pc[h] = "recv"
    /\ queue[h] # <<>>
    /\ LET m == Head(queue[h])
       IN  /\ queue' = [queue EXCEPT ![h] = Tail(queue[h])]
           /\ IF JsonParses(m.body)
              THEN /\ out' = [out EXCEPT ![h] =
                                HookFrame(hkind[h], m.id, hbeh[h], JsonFromSlice(m.body))]
                   /\ pc' = [pc EXCEPT ![h] = "send"]
                   /\ handled' = Append(handled,
                                   [id |-> m.id, body |-> m.body, by |-> h, took |-> TRUE])
              ELSE /\ handled' = Append(handled,
                                   [id |-> m.id, body |-> m.body, by |-> h, took |-> FALSE])
                   /\ UNCHANGED <<out, pc>>
    /\ UNCHANGED <<uid, uidLock, call_stack, listener>>
    /\ UNCHANGED <<callVars, bindVars, loopVars, peerVars, sendVars>>

----------------------------------------------------------------------------
(* run (lines 136-143) and poll (lines 277-325) *)

\* run spawns a task that calls poll for ever
Run(l) ==
    /\ dpc[l] = "off"
    /\ dpc' = [dpc EXCEPT ![l] = "idle"]
    /\ UNCHANGED <<uid, uidLock, call_stack, listener, pc, out, queue, handled,
                   buffer, bufLock, routed>>
    /\ UNCHANGED <<callVars, bindVars, peerVars, sendVars>>

\* PollRead with the read put in place of what the buffer held
PollReadOverwrites(l, n) ==
    /\ dpc[l] = "idle"
    /\ bufLock = NoTask
    /\ n \in 1 .. Len(win)
    /\ bufLock' = l
    /\ buffer' = SubSeq(win, 1, n)
    /\ win' = SubSeq(win, n + 1, Len(win))
    /\ dpc' = [dpc EXCEPT ![l] = "decode"]
    /\ UNCHANGED <<uid, uidLock, call_stack, listener, pc, out, queue, handled,
                   routed, echoed, injected>>
    /\ UNCHANGED <<callVars, bindVars, sendVars>>

\* PollRead without waiting for the guard on buffer
PollReadUnguarded(l, n) ==
    /\ dpc[l] = "idle"
    /\ n \in 1 .. Len(win)
    /\ bufLock' = l
    /\ buffer' = buffer \o SubSeq(win, 1, n)
    /\ win' = SubSeq(win, n + 1, Len(win))
    /\ dpc' = [dpc EXCEPT ![l] = "decode"]
    /\ UNCHANGED <<uid, uidLock, call_stack, listener, pc, out, queue, handled,
                   routed, echoed, injected>>
    /\ UNCHANGED <<callVars, bindVars, sendVars>>

\* PollRead with the read put in front of what the buffer held
PollReadInFront(l, n) ==
    /\ dpc[l] = "idle"
    /\ bufLock = NoTask
    /\ n \in 1 .. Len(win)
    /\ bufLock' = l
    /\ buffer' = SubSeq(win, 1, n) \o buffer
    /\ win' = SubSeq(win, n + 1, Len(win))
    /\ dpc' = [dpc EXCEPT ![l] = "decode"]
    /\ UNCHANGED <<uid, uidLock, call_stack, listener, pc, out, queue, handled,
                   routed, echoed, injected>>
    /\ UNCHANGED <<callVars, bindVars, sendVars>>

\* lines 278-279: the guard on buffer is taken and one read of n bytes is
\* appended to the buffer
PollRead(l, n) ==
    /\ dpc[l] = "idle"
    /\ bufLock = NoTask
    /\ n \in 1 .. Len(win)
    /\ bufLock' = l
    /\ buffer' = buffer \o SubSeq(win, 1, n)
    /\ win' = SubSeq(win, n + 1, Len(win))
    /\ dpc' = [dpc EXCEPT ![l] = "decode"]
    /\ UNCHANGED <<uid, uidLock, call_stack, listener, pc, out, queue, handled,
                   routed, echoed, injected>>
    /\ UNCHANGED <<callVars, bindVars, sendVars>>

\* oneshot Sender::send fails when the receiver was dropped, and the unwrap
\* (lines 337, 345) then panics
ReceiverGone(c) == slot[c].st = "rxdropped"

\* Outcome with the result of str_from_utf8 unwrapped
OutcomeUnwrapsUtf8(fr) ==
    IF fr.flag = FlagRequest
    THEN IF fr.kind \in DOMAIN listener THEN "queued" ELSE "no_handler"
    ELSE IF fr.flag = FlagError /\ ~Utf8Valid(fr.body) THEN "panic"
    ELSE IF fr.id \notin DOMAIN call_stack THEN "no_call"
    ELSE IF ReceiverGone(call_stack[fr.id]) THEN "panic"
    ELSE "resolved"

\* Outcome with the missing entry unwrapped instead of passed by `?`
OutcomeUnwrapsMissing(fr) ==
    IF fr.flag = FlagRequest
    THEN IF fr.kind \in DOMAIN listener THEN "queued" ELSE "panic"
    ELSE IF fr.flag = FlagError /\ ~Utf8Valid(fr.body) THEN "bad_utf8"
    ELSE IF fr.id \notin DOMAIN call_stack THEN "panic"
    ELSE IF ReceiverGone(call_stack[fr.id]) THEN "panic"
    ELSE "resolved"

\* process_request (lines 328-332), process_reply (335-339) and
\* process_error (342-347): what becomes of a decoded frame
Outcome(fr) ==
    IF fr.flag = FlagRequest
    THEN IF fr.kind \in DOMAIN listener THEN "queued" ELSE "no_handler"
    ELSE IF fr.flag = FlagError /\ ~Utf8Valid(fr.body) THEN "bad_utf8"
    ELSE IF fr.id \notin DOMAIN call_stack THEN "no_call"
    ELSE IF ReceiverGone(call_stack[fr.id]) THEN "panic"
    ELSE "resolved"

\* RemovesEntry with the entry looked up and left in the table
LeavesEntry(what) == FALSE

\* process_reply and process_error both remove the entry before they send
RemovesEntry(what) == what \in {"resolved", "panic"}

\* Completed with process_error sending Ok like process_reply
CompletedAlwaysOk(fr) == Slot("ok", fr.body)

\* the value the slot is completed with: Ok(body) or Err(message)
Completed(fr) == Slot(IF fr.flag = FlagReply THEN "ok" ELSE "err", fr.body)

\* one turn of the loop of lines 281-322 by the loop holding the buffer: it
\* breaks (poll returns and drops the guard), or Flag::try_from fails (poll
\* returns the error), or the front frame is taken and handed to its
\* process_ function; a panic in there ends the spawned task
PollStep(l) ==
    /\ dpc[l] = "decode"
    /\ IF ~FrameReady(buffer)
       THEN /\ dpc' = [dpc EXCEPT ![l] = "idle"]
            /\ bufLock' = NoTask
            /\ UNCHANGED <<buffer, call_stack, slot, queue, routed>>
       ELSE IF ~KnownFlag(buffer[6])
       THEN /\ buffer' = AfterBadFlag(buffer)
            /\ dpc' = [dpc EXCEPT ![l] = "idle"]
            /\ bufLock' = NoTask
            /\ UNCHANGED <<call_stack, slot, queue, routed>>
       ELSE LET fr == FrontFrame(buffer)
                what == Outcome(fr)
            IN  /\ buffer' = AfterFrame(buffer)
                /\ routed' = Append(routed, [frame |-> fr, what |-> what])
                /\ queue' = IF what = "queued"
                            THEN [queue EXCEPT ![listener[fr.kind]] =
                                    Append(@, [id |-> fr.id, body |-> fr.body])]
                            ELSE queue
                /\ call_stack' = IF RemovesEntry(what)
                                 THEN Remove(call_stack, fr.id) ELSE call_stack
                /\ slot' = IF what = "resolved"
                           THEN [slot EXCEPT ![call_stack[fr.id]] = Completed(fr)]
                           ELSE slot
                /\ dpc' = IF what = "panic" THEN [dpc EXCEPT ![l] = "dead"] ELSE dpc
                /\ bufLock' = IF what = "panic" THEN NoTask ELSE bufLock
    /\ UNCHANGED <<uid, uidLock, listener, pc, out, handled, ckind, cdata, cid, result>>
    /\ UNCHANGED <<bindVars, peerVars, sendVars>>

----------------------------------------------------------------------------
(* The peer *)

\* a peer that reflects the stream: the frames written so far come back
PeerEcho ==
    /\ echoed < Len(wout)
    /\ \A w \in Writers : pc[w] # "body"
    /\ win' = win \o SubSeq(wout, echoed + 1, Len(wout))
    /\ echoed' = Len(wout)
    /\ UNCHANGED <<uid, uidLock, call_stack, listener, pc, out, queue, handled, injected>>
    /\ UNCHANGED <<callVars, bindVars, loopVars, sendVars>>

\* a peer that sends a frame of its own, encoded as send encodes it
PeerInject(fr, max) ==
    /\ Len(injected) < max
    /\ win' = win \o Encode(fr)
    /\ injected' = Append(injected, fr)
    /\ UNCHANGED <<uid, uidLock, call_stack, listener, pc, out, queue, handled, echoed>>
    /\ UNCHANGED <<callVars, bindVars, loopVars, sendVars>>

\* the Request frame with this id has been written whole
Requested(id) ==
    \E j \in DOMAIN sent :
        /\ sent[j].flag = FlagRequest /\ sent[j].id = id
        /\ j = Len(sent) => \A w \in Writers : pc[w] # "body"

\* a peer that answers the requests it has got: a frame of its own for an id
\* whose Request has been written
PeerAnswer(fr, max) == Requested(fr.id) /\ PeerInject(fr, max)

\* the ids the calls of the model are given
CallIds == {Id(n) : n \in 1 .. MaxCalls}

----------------------------------------------------------------------------
(* Spec: the transport facing a peer that reflects the stream, so that its *)
(* handler tasks serve its own calls                                       *)

Next ==
    \/ \E c \in Callers : CallStart(c)
    \/ \E c \in Callers, k \in Kinds, d \in {1, 2} : CallRegister(c, k, d)
    \/ \E c \in Callers : CallReturn(c)
    \/ \E w \in Writers : SendHeader(w)
    \/ \E w \in Writers : SendBody(w)
    \/ \E h \in Handlers, k \in Kinds, beh \in {Echo, Fails(Boom)} : Bind(h, k, beh)
    \/ \E h \in Handlers : HandlerRecv(h)
    \/ Run(<<"run", 1>>)
    \/ PollRead(<<"run", 1>>, Len(win))
    \/ PollStep(<<"run", 1>>)
    \/ PeerEcho

Spec == Init /\ [][Next]_vars

----------------------------------------------------------------------------
(* SpecCalls: the callers facing a peer that answers on its own account,   *)
(* in any order, any number of times, with any body                        *)

\* replies and errors the peer may send
AnswerFrames ==
    UNION {{Frame(1, FlagReply, Id(n), JsonToVec(n)),
            Frame(1, FlagError, Id(n), Boom),
            Frame(1, FlagError, Id(n), <<255>>)} : n \in 1 .. MaxCalls}

NextCalls ==
    \/ \E c \in Callers : CallStart(c)
    \/ \E c \in Callers, d \in {1, Unserializable} : CallRegister(c, 1, d)
    \/ \E c \in Callers : CallReturn(c)
    \/ \E c \in Callers : SendHeader(c)
    \/ \E c \in Callers : SendBody(c)
    \/ Run(<<"run", 1>>)
    \/ PollRead(<<"run", 1>>, Len(win))
    \/ PollStep(<<"run", 1>>)
    \/ \E fr \in AnswerFrames : PeerInject(fr, MaxAnswers)

SpecCalls == Init /\ [][NextCalls]_vars

----------------------------------------------------------------------------
(* SpecServe: the handler tasks facing a peer that sends requests and      *)
(* answers none, while a call is made                                      *)

RequestFrames ==
    {Frame(k, FlagRequest, Id(7), b) : k \in Kinds, b \in {<<49>>, <<>>}}

NextServe ==
    \/ CallStart(<<"call", 1>>)
    \/ CallRegister(<<"call", 1>>, 1, 1)
    \/ \E h \in Handlers, k \in Kinds : Bind(h, k, Echo)
    \/ \E h \in Handlers : HandlerRecv(h)
    \/ \E w \in Writers : SendHeader(w)
    \/ \E w \in Writers : SendBody(w)
    \/ Run(<<"run", 1>>)
    \/ PollRead(<<"run", 1>>, Len(win))
    \/ PollStep(<<"run", 1>>)
    \/ \E fr \in RequestFrames : PeerInject(fr, MaxRequests)

SpecServe == Init /\ [][NextServe]_vars

----------------------------------------------------------------------------
(* SpecWire: the dispatch loop facing a peer that sends any frames, read   *)
(* off the stream in pieces of any size                                    *)

WireFrames ==
    {Frame(x[1], f, x[2], b) : x \in {<<1, Id(1)>>, <<255, U32Max>>},
                               f \in {FlagRequest, FlagReply, FlagError},
                               b \in {<<>>, <<49>>}}

NextWire ==
    \/ Run(<<"run", 1>>)
    \/ \E n \in 1 .. Len(win) : PollRead(<<"run", 1>>, n)
    \/ PollStep(<<"run", 1>>)
    \/ \E fr \in WireFrames : PeerInject(fr, MaxFrames)

SpecWire == Init /\ [][NextWire]_vars

----------------------------------------------------------------------------
(* SpecCancel: callers that may give up their wait, facing a peer that     *)
(* answers the requests written to it, each any number of times            *)

CancelFrames ==
    UNION {{Frame(1, FlagReply, Id(n), JsonToVec(n)),
            Frame(1, FlagError, Id(n), <<255>>)} : n \in 1 .. MaxCalls}

NextCancel ==
    \/ \E c \in Callers : CallStart(c)
    \/ \E c \in Callers : CallRegister(c, 1, 1)
    \/ \E c \in Callers : SendHeader(c)
    \/ \E c \in Callers : SendBody(c)
    \/ \E c \in Callers : CallAbandon(c)
    \/ \E c \in Callers : CallReturn(c)
    \/ Run(<<"run", 1>>)
    \/ PollRead(<<"run", 1>>, Len(win))
    \/ PollStep(<<"run", 1>>)
    \/ \E fr \in CancelFrames : PeerAnswer(fr, MaxAnswers)

SpecCancel == Init /\ [][NextCancel]_vars

----------------------------------------------------------------------------
(* SpecFlags: the dispatch loop facing a peer whose frames may carry a     *)
(* flag byte that is none of 0, 1, 2                                       *)

FlagFrames ==
    {Frame(1, f, Id(1), <<49>>) : f \in {FlagRequest, FlagReply, FlagError, 3}}

NextFlags ==
    \/ Run(<<"run", 1>>)
    \/ \E n \in 1 .. Len(win) : PollRead(<<"run", 1>>, n)
    \/ PollStep(<<"run", 1>>)
    \/ \E fr \in FlagFrames : PeerInject(fr, MaxFrames)

SpecFlags == Init /\ [][NextFlags]_vars

----------------------------------------------------------------------------
(* SpecWrap: callers on a transport that has been in use for long, so that *)
(* the ids come to the end of the u32 range, facing a peer that answers    *)
(* the requests written to it                                              *)

\* u32::MAX - 1
U32Penult == <<255, 255, 255, 254>>

WrapFrames == {Frame(1, FlagReply, i, <<49>>) : i \in {U32Max, U32Zero, Id(1)}}

NextWrap ==
    \/ \E c \in Callers : CallStart(c)
    \/ \E c \in Callers : CallRegister(c, 1, 1)
    \/ \E c \in Callers : SendHeader(c)
    \/ \E c \in Callers : SendBody(c)
    \/ \E c \in Callers : CallAbandon(c)
    \/ \E c \in Callers : CallReturn(c)
    \/ \E t \in {U32Penult, U32Max, U32Zero} : CallsElsewhere(t)
    \/ Run(<<"run", 1>>)
    \/ PollRead(<<"run", 1>>, Len(win))
    \/ PollStep(<<"run", 1>>)
    \/ \E fr \in WrapFrames : PeerAnswer(fr, MaxAnswers)

SpecWrap == Init /\ [][NextWrap]_vars

----------------------------------------------------------------------------
(* SpecLive: the callers and the dispatch loop under fair scheduling,      *)
(* facing a peer that answers the requests written to it with a Reply or   *)
(* with an Error frame whose message is empty                              *)

LiveFrames ==
    UNION {{Frame(1, FlagReply, Id(n), <<49>>),
            Frame(1, FlagError, Id(n), <<>>)} : n \in 1 .. MaxCalls}

NextLive ==
    \/ \E c \in Callers : CallStart(c)
    \/ \E c \in Callers : CallRegister(c, 1, 1)
    \/ \E c \in Callers : SendHeader(c)
    \/ \E c \in Callers : SendBody(c)
    \/ \E c \in Callers : CallReturn(c)
    \/ Run(<<"run", 1>>)
    \/ PollRead(<<"run", 1>>, Len(win))
    \/ PollStep(<<"run", 1>>)
    \/ \E fr \in LiveFrames : PeerAnswer(fr, MaxAnswers)

\* the runtime schedules every task that can run: the task spawned by run
\* (line 138) and the tasks inside call; the peer is under no obligation
FairLive ==
    /\ WF_vars(Run(<<"run", 1>>))
    /\ WF_vars(PollRead(<<"run", 1>>, Len(win)))
    /\ WF_vars(PollStep(<<"run", 1>>))
    /\ \A c \in Callers :
           /\ WF_vars(CallRegister(c, 1, 1))
           /\ WF_vars(SendHeader(c))
           /\ WF_vars(SendBody(c))
           /\ WF_vars(CallReturn(c))

SpecLive == Init /\ [][NextLive]_vars /\ FairLive

----------------------------------------------------------------------------
(* SpecOrder: the handler tasks of one kind facing a peer whose requests   *)
(* can be told apart, read off the stream in pieces of any size            *)

OrderFrames == {Frame(1, FlagRequest, i, <<49>>) : i \in {Id(7), Id(8)}}

NextOrder ==
    \/ \E h \in Handlers, beh \in {Echo, Fails(Boom)} : Bind(h, 1, beh)
    \/ \E h \in Handlers : HandlerRecv(h)
    \/ \E h \in Handlers : SendHeader(h)
    \/ \E h \in Handlers : SendBody(h)
    \/ Run(<<"run", 1>>)
    \/ \E n \in 1 .. Len(win) : PollRead(<<"run", 1>>, n)
    \/ PollStep(<<"run", 1>>)
    \/ \E fr \in OrderFrames : PeerInject(fr, MaxRequests)

SpecOrder == Init /\ [][NextOrder]_vars

----------------------------------------------------------------------------
(* SpecTwoLoops: run invoked twice, so that two tasks call poll on the one *)
(* transport, facing a peer that sends any frames                          *)

NextTwoLoops ==
    \/ \E l \in Loops : Run(l)
    \/ \E l \in Loops, n \in 1 .. Len(win) : PollRead(l, n)
    \/ \E l \in Loops : PollStep(l)
    \/ \E fr \in WireFrames : PeerInject(fr, MaxFrames)

SpecTwoLoops == Init /\ [][NextTwoLoops]_vars

----------------------------------------------------------------------------
(* What the properties below speak of *)

\* the frames poll has decoded, in order
RoutedFrames == [i \in DOMAIN routed |-> routed[i].frame]

\* poll decodes a frame in this step; Decoded is that frame
Decodes == Len(routed') = Len(routed) + 1
Decoded == routed'[Len(routed')].frame

IsAnswer(fr) == fr.flag \in {FlagReply, FlagError}

\* a call whose request is out and whose reply has not come
Suspended(c) == pc[c] = "wait" /\ slot[c].st = "open"

----------------------------------------------------------------------------
(* C1: a call suspended on its reply does not block other calls: while one *)
(* call has written its Request and awaits its Reply/Error, a second call  *)
(* that was invoked can take its id, register its slot and go on to write  *)
(* its Request.                                                            *)
(* The code keeps the guard on uid until call returns, so it cannot.       *)

C1_SuspendedCallDoesNotBlock ==
    \A a, b \in Callers :
        (Suspended(a) /\ pc[b] = "uid") => ENABLED CallRegister(b, 1, 1)

----------------------------------------------------------------------------
(* C2: when N calls are issued concurrently and their N Reply frames come  *)
(* in any order, every call gets the body of the Reply carrying its own    *)
(* id, and never another's.                                                *)
(* Stated as: once all N calls have been issued, each driven as far as it  *)
(* can run, and none has returned, the Reply frame for any of the N ids    *)
(* is given to the call holding that id.                                   *)
(* In the code a call waiting for the guard on uid (C1) holds no id yet:   *)
(* the Reply for the id it is about to take is dropped.                    *)

CanStep(c) ==
    ENABLED (CallRegister(c, 1, 1) \/ SendHeader(c) \/ SendBody(c) \/ CallReturn(c))

AllIssued == \A c \in Callers : pc[c] \notin {"idle", "done"} /\ ~CanStep(c)

C2_EachCallGetsItsOwnReply ==
    [][(AllIssued /\ Decodes /\ Decoded.flag = FlagReply /\ Decoded.id \in CallIds)
       => \E c \in Callers : /\ cid[c] = Decoded.id
                             /\ slot'[c] = Slot("ok", Decoded.body)]_vars

----------------------------------------------------------------------------
(* C5, as claimed: for a registered call id at most one resolution occurs: *)
(* of several Reply or Error frames with the id, the first removes and     *)
(* completes the slot, every later one finds no entry and is dropped, and  *)
(* the caller sees the first result only.                                  *)
(* An Error frame whose body is not UTF-8 is dropped before the table is   *)
(* looked at (line 343), so the first frame need not be the one.           *)

\* the call that waits under the id of the frame about to be decoded
Waiting(fr) == fr.id \in DOMAIN call_stack /\ slot[call_stack[fr.id]].st = "open"

\* the entry is removed and its slot completed with the frame's body
Resolves(fr) ==
    /\ call_stack' = [i \in DOMAIN call_stack \ {fr.id} |-> call_stack[i]]
    /\ slot' = [slot EXCEPT ![call_stack[fr.id]] =
                  [st |-> IF fr.flag = FlagReply THEN "ok" ELSE "err", body |-> fr.body]]

\* a completed slot keeps its value, and call returns that value
FirstResultStays ==
    \A c \in Callers :
        /\ slot[c].st \in {"ok", "err"} => slot'[c] = slot[c]
        /\ (pc[c] = "wait" /\ pc'[c] = "done") =>
               \/ slot[c].st = "ok" /\ result'[c].st \in {"ok", "de_err"}
               \/ slot[c].st = "err" /\ result'[c] = Res("app_err", 0, slot[c].body)

WellFormedAnswer(fr) == fr.flag = FlagReply \/ Utf8Valid(fr.body)

----------------------------------------------------------------------------
(* C10: a Reply or Error frame whose id is not a key of the Correlation    *)
(* Table is dropped without error: the table and every pending call are    *)
(* left as they were, and the loop goes on with the frames that follow.    *)

\* the loop that decodes in this step is still in its loop afterwards, and
\* the buffer starts at the byte after the frame
GoesOn(fr) ==
    /\ \A l \in Loops : dpc[l] = "decode" => dpc'[l] = "decode"
    /\ bufLock' = bufLock
    /\ buffer' = SubSeq(buffer, 10 + Len(fr.body) + 1, Len(buffer))

C10_UnknownIdDropped ==
    [][(Decodes /\ IsAnswer(Decoded) /\ Decoded.id \notin DOMAIN call_stack)
       => /\ UNCHANGED <<call_stack, slot, result, pc, uidLock>>
          /\ GoesOn(Decoded)]_vars

\* a frame for an id that is no key was dropped while another call was
\* pending, and the frame after it resolved that call
C10_Witness ==
    \E i \in DOMAIN routed :
        /\ i + 1 \in DOMAIN routed
        /\ routed[i].what = "no_call"
        /\ routed[i + 1].what = "resolved"
        /\ \E c \in Callers : cid[c] = routed[i + 1].frame.id /\ slot[c].st = "ok"

----------------------------------------------------------------------------
(* The wire format the properties are stated against: u32 body length,     *)
(* u8 kind, u8 flag, u32 id, all big-endian, then the body                 *)

WireLength(n) == <<n \div 16777216, (n \div 65536) % 256, (n \div 256) % 256, n % 256>>
Wire(fr) == WireLength(Len(fr.body)) \o <<fr.kind>> \o <<fr.flag>> \o fr.id \o fr.body

RECURSIVE WireOf(_)
WireOf(frames) ==
    IF frames = <<>> THEN <<>> ELSE Wire(Head(frames)) \o WireOf(Tail(frames))

IsPrefix(a, b) == Len(a) <= Len(b) /\ a = SubSeq(b, 1, Len(a))

TheLoop == <<"run", 1>>

----------------------------------------------------------------------------
(* C3: if the handler bound to a kind fails with message m on a request    *)
(* with id i, the call with id i fails with exactly m, an Error frame with *)
(* id i is written back, and no Reply frame with id i is ever written.     *)

C3_HandlerErrorReachesCaller ==
    \A n \in DOMAIN handled :
        LET e == handled[n]
            h == e.by
            err == Frame(hkind[h], FlagError, e.id, hbeh[h].msg)
        IN  (e.took /\ hbeh[h].fail) =>
              /\ \A c \in Callers :
                     (cid[c] = e.id /\ pc[c] = "done")
                         => result[c] = Res("app_err", 0, hbeh[h].msg)
              /\ \/ pc[h] = "send" /\ out[h] = err
                 \/ \E j \in DOMAIN sent : sent[j] = err
              /\ \A j \in DOMAIN sent : ~(sent[j].flag = FlagReply /\ sent[j].id = e.id)

\* a call to a kind whose handler fails with "boom" has returned
C3_Witness ==
    \E c \in Callers : \E n \in DOMAIN handled :
        /\ handled[n].id = cid[c] /\ handled[n].took /\ hbeh[handled[n].by].fail
        /\ pc[c] = "done"
        /\ result[c] = Res("app_err", 0, Boom)

----------------------------------------------------------------------------
(* C4: when the handler bound to a kind echoes its input, a call to the    *)
(* kind returns the payload it sent, and once it has returned the          *)
(* Correlation Table holds no entry for its id.                            *)

EchoServed(c) ==
    \E n \in DOMAIN handled :
        handled[n].id = cid[c] /\ handled[n].took /\ ~hbeh[handled[n].by].fail

C4_EchoReturnsPayload ==
    \A c \in Callers :
        (pc[c] = "done" /\ EchoServed(c))
            => /\ result[c] = Res("ok", cdata[c], <<>>)
               /\ cid[c] \notin DOMAIN call_stack

\* both calls were served by an echoing handler and returned, with
\* different payloads
C4_Witness ==
    \E a, b \in Callers :
        /\ pc[a] = "done" /\ EchoServed(a) /\ result[a].st = "ok"
        /\ pc[b] = "done" /\ EchoServed(b) /\ result[b].st = "ok"
        /\ cdata[a] # cdata[b]

----------------------------------------------------------------------------
(* C6: whatever the interleaving of the writers (calls and handler         *)
(* replies), the bytes written are whole frames one after another: once a  *)
(* header is being written no byte of another frame is written before the  *)
(* body of that frame is complete.                                         *)

C6_NoWriteSplitsAFrame ==
    LET writing == {w \in Writers : pc[w] = "body"}
        n == Len(sent)
    IN  IF writing = {}
        THEN wout = WireOf(sent)
        ELSE /\ Cardinality(writing) = 1
             /\ n > 0
             /\ wout = WireOf(SubSeq(sent, 1, n - 1))
                         \o SubSeq(Wire(sent[n]), 1, 10)

\* a call is between its header and its body while a handler task has a
\* reply to write
C6_Witness ==
    \E c \in Callers, h \in Handlers : pc[c] = "body" /\ pc[h] = "send"

----------------------------------------------------------------------------
(* C7: for every kind, flag, id and body (the empty body too) the bytes    *)
(* send produces decode, in the dispatch loop, to the same (kind, flag,    *)
(* id, body) and take exactly 10 + len(body) bytes off the Inbound Buffer. *)
(* Stated for the loop back at rest with every byte sent read: the frames  *)
(* decoded are the frames sent and the buffer is empty.                    *)
(* The loop leaves a buffer of exactly 10 bytes alone (line 285), so a     *)
(* frame with an empty body is not decoded.                                *)

AtRest == dpc[TheLoop] = "idle" /\ win = <<>>

C7_EncodeDecodeRoundTrip ==
    AtRest => RoutedFrames = injected /\ buffer = <<>>

----------------------------------------------------------------------------
(* C8: for a sequence of well-formed frames the frames decoded and routed  *)
(* are the same however the stream is cut into reads as when it comes in   *)
(* one read: none is lost, duplicated or routed before all its bytes are   *)
(* there.                                                                  *)

\* the bytes read off the stream so far
BytesRead ==
    LET all == WireOf(injected) IN SubSeq(all, 1, Len(all) - Len(win))

\* what one poll decodes of bytes that came in one read
RECURSIVE OneRead(_)
OneRead(bytes) ==
    IF FrameReady(bytes)
    THEN <<FrontFrame(bytes)>> \o OneRead(AfterFrame(bytes))
    ELSE <<>>

C8_ReadsCutAnywhere ==
    /\ WireOf(RoutedFrames) \o buffer = BytesRead
    /\ IsPrefix(RoutedFrames, injected)
    /\ dpc[TheLoop] = "idle" => RoutedFrames = OneRead(BytesRead)

\* a frame has been routed and the loop is at rest holding the first bytes
\* of the next frame, short of its header
C8_Witness ==
    /\ dpc[TheLoop] = "idle"
    /\ Len(routed) = 1
    /\ Len(buffer) \in 1 .. 9
    /\ Len(win) > 0

----------------------------------------------------------------------------
(* C9: a Request frame whose kind has no handler is dropped: its bytes are *)
(* consumed, the Handler Registry and the Correlation Table are unchanged, *)
(* no frame is written in response, and the frames after it are decoded    *)
(* and routed as if it had not been there.                                 *)

Queued(r) == r.what = "queued"

C9_DropStep ==
    (Decodes /\ Decoded.flag = FlagRequest /\ Decoded.kind \notin DOMAIN listener)
    => /\ UNCHANGED <<listener, call_stack, slot, queue, pc, out, wout, sent>>
       /\ GoesOn(Decoded)

\* every reply written answers a request that was handed to a handler
C9_AnswersOnlyToQueued ==
    Len(SelectSeq(sent, IsAnswer)) <= Len(SelectSeq(routed, Queued))

C9_UnboundRequestDropped ==
    /\ [][C9_DropStep]_vars
    /\ [](C9_AnswersOnlyToQueued /\ IsPrefix(RoutedFrames, injected))

\* a request for an unbound kind was dropped, the request after it was
\* handed to its handler, and the handler wrote its reply
C9_Witness ==
    \E i \in DOMAIN routed :
        /\ i + 1 \in DOMAIN routed
        /\ routed[i].what = "no_handler"
        /\ routed[i + 1].what = "queued"
        /\ \E j \in DOMAIN sent : IsAnswer(sent[j]) /\ sent[j].id = routed[i + 1].frame.id
        /\ wLock = NoTask

----------------------------------------------------------------------------
(* C11: if a caller gives up its wait on the completion slot (its task is  *)
(* dropped) and the Reply or Error frame for its id comes afterwards, the  *)
(* dispatch loop does not crash: the late frame is tolerated and the loop  *)
(* lives on to decode the frames after it.                                 *)
(* The code unwraps the result of the oneshot send (lines 337, 345), which *)
(* is an error once the receiver is dropped: the loop's task panics.       *)

Abandoned(c) == pc[c] = "dropped"

LateFor(fr, c) == IsAnswer(fr) /\ Abandoned(c) /\ cid[c] = fr.id

C11_LateAnswerTolerated ==
    \A i \in DOMAIN routed : \A c \in Callers :
        LateFor(routed[i].frame, c)
            => routed[i].what # "panic" /\ dpc[TheLoop] # "dead"

----------------------------------------------------------------------------
(* C12: when a Request frame reaches a bound handler and its body cannot   *)
(* be deserialized into the handler's input type, that request fails with  *)
(* an error reply: an Error frame with the request's id is written back,   *)
(* and the handler task goes on with the next request.                     *)
(* The code goes on with the next request (line 181) and writes nothing.   *)

\* the handler task has the Error frame for the id in hand or has sent it
ErrorReplied(h, id) ==
    \/ pc[h] \in {"send", "body"} /\ out[h].flag = FlagError /\ out[h].id = id
    \/ \E j \in DOMAIN sent : sent[j].flag = FlagError /\ sent[j].id = id

C12_UnreadableRequestGetsError ==
    \A n \in DOMAIN handled :
        ~handled[n].took => ErrorReplied(handled[n].by, handled[n].id)

----------------------------------------------------------------------------
(* C13: a frame whose flag byte is none of 0, 1, 2 is contained at its     *)
(* frame boundary: it is fatal to that frame only, and the well-formed     *)
(* frames after it in the stream are decoded at their own boundaries, with *)
(* their own kind, flag, id and body.                                      *)
(* Stated as: the frames decoded are, in order, the frames sent that have  *)
(* a known flag.                                                           *)
(* The code returns from poll with the length, kind and flag bytes taken   *)
(* and the id and body left (line 311): the next frame is decoded from the *)
(* middle of the bad one.                                                  *)

HasKnownFlag(fr) == fr.flag \in {0, 1, 2}

C13_BadFlagContained ==
    IsPrefix(RoutedFrames, SelectSeq(injected, HasKnownFlag))

----------------------------------------------------------------------------
(* C14: after the ID Generator has issued the maximum 32-bit value, the    *)
(* next call is given id 0 (never 1), and a Reply frame with id 0 then     *)
(* resolves exactly that call.                                             *)

\* call c takes its id in this step
Registers(c) == pc[c] = "uid" /\ pc'[c] # "uid"

C14_WrapsToZero ==
    [][/\ \A c \in Callers :
              (Registers(c) /\ uid = <<255, 255, 255, 255>>)
                  => /\ cid'[c] = <<0, 0, 0, 0>>
                     /\ call_stack'[<<0, 0, 0, 0>>] = c
       /\ \A c \in Callers :
              (/\ Decodes /\ Decoded.flag = FlagReply /\ Decoded.id = <<0, 0, 0, 0>>
               /\ cid[c] = <<0, 0, 0, 0>> /\ Suspended(c))
                  => /\ slot'[c] = Slot("ok", Decoded.body)
                     /\ \A b \in Callers \ {c} : slot'[b] = slot[b]
                     /\ <<0, 0, 0, 0>> \notin DOMAIN call_stack']_vars

\* one call was given the maximum, the next id 0, and the Reply with id 0
\* was returned to that call
C14_Witness ==
    \E b, c \in Callers :
        /\ cid[b] = <<255, 255, 255, 255>> /\ pc[b] = "done"
        /\ cid[c] = <<0, 0, 0, 0>> /\ pc[c] = "done"
        /\ result[c] = Res("ok", 1, <<>>)
        /\ \E i \in DOMAIN routed :
               routed[i].frame.id = <<0, 0, 0, 0>> /\ routed[i].what = "resolved"

----------------------------------------------------------------------------
(* C15: after two binds to the same kind the registry holds only the later *)
(* registration: every Request frame for the kind routed after the second  *)
(* bind goes to the second handler and never to the first.                 *)

\* the handler tasks bound to kind k so far; bind is called for the tasks
\* in the order of their numbers
BoundTo(k) == {h \in Handlers : pc[h] # "unbound" /\ hkind[h] = k}
LastBound(k) == CHOOSE h \in BoundTo(k) : \A g \in BoundTo(k) : g[2] <= h[2]

C15_RegistryHoldsLast ==
    \A k \in Kinds :
        BoundTo(k) # {} => k \in DOMAIN listener /\ listener[k] = LastBound(k)

C15_RequestGoesToLast ==
    (Decodes /\ Decoded.flag = FlagRequest /\ BoundTo(Decoded.kind) # {})
    => queue' = [queue EXCEPT ![LastBound(Decoded.kind)] =
                   Append(@, [id |-> Decoded.id, body |-> Decoded.body])]

C15_LastBindWins == [](C15_RegistryHoldsLast) /\ [][C15_RequestGoesToLast]_vars

\* two handlers were bound to one kind, and each has taken a request: the
\* first one routed before the second bind, the second one routed after it
C15_Witness ==
    \E g, h \in Handlers : \E n, m \in DOMAIN handled :
        /\ g[2] < h[2] /\ pc[g] # "unbound" /\ pc[h] # "unbound"
        /\ hkind[g] = hkind[h]
        /\ handled[n].by = g /\ handled[m].by = h
        /\ queue[g] = <<>>

----------------------------------------------------------------------------
(* C16: under fair scheduling, with the dispatch loop running, every call  *)
(* whose Request was written and whose Reply or Error frame has arrived    *)
(* whole on the stream eventually returns to its caller, whatever the      *)
(* body, an empty error message included.                                  *)
(* An Error frame with an empty message is 10 bytes; the loop leaves a     *)
(* buffer of 10 bytes alone (line 285, see C7), so that call never         *)
(* returns unless more bytes happen to come.                               *)

\* the call awaits its reply and a frame answering it is on the stream
Answered(c) ==
    /\ pc[c] = "wait"
    /\ \E i \in DOMAIN injected : IsAnswer(injected[i]) /\ injected[i].id = cid[c]

C16_AnsweredCallReturns ==
    \A c \in Callers : Answered(c) ~> (pc[c] = "done")

----------------------------------------------------------------------------
(* C17: in each dispatch cycle, whenever the Inbound Buffer holds at least *)
(* 10 bytes and the body length declared in its first 4 bytes fits in the  *)
(* rest, the frame at the front is decoded, consumed and routed in that    *)
(* cycle; a frame with an empty body, 10 bytes, is routed without waiting  *)
(* for more.                                                               *)
(* Stated as: when a cycle is over no whole frame is at the front of the   *)
(* buffer.                                                                 *)
(* The code ends the cycle when the buffer holds 10 bytes or fewer (line   *)
(* 285), so a frame of exactly 10 bytes stays.                             *)

\* a whole frame is at the front of buf
WholeFrameAtFront(buf) ==
    /\ Len(buf) >= 10
    /\ \E n \in 0 .. Len(buf) - 10 : SubSeq(buf, 1, 4) = WireLength(n)

C17_WholeFrameDecodedInCycle ==
    dpc[TheLoop] = "idle" => ~WholeFrameAtFront(buffer)

----------------------------------------------------------------------------
(* C18, as claimed: the ID Generator returns its current value and then    *)
(* increments: on a fresh transport the first call uses id 0 and each      *)
(* later call the previous call's id plus one.                             *)
(* The code steps the counter first and uses the stepped value (line 213): *)
(* the first id is 1.                                                      *)

\* the calls that have taken their id
Registered == {c \in Callers : pc[c] \notin {"idle", "uid"}}

\* the ids in use once the calls of Registered have taken theirs
IdsTaken == {cid[c] : c \in Registered}

C18_FirstIdIsZero ==
    IdsTaken = {WireLength(n) : n \in 0 .. Cardinality(Registered) - 1}

(* C18, amended: the ID Generator increments its value and then returns    *)
(* it: on a fresh transport the first call uses id 1 and each later call   *)
(* the previous call's id plus one (modulo the wrap to 0 after the         *)
(* maximum, which is C14's).                                               *)

C18_FirstIdIsOne ==
    IdsTaken = {WireLength(n) : n \in 1 .. Cardinality(Registered)}

\* every call of the model has taken its id
C18_Witness ==
    /\ Registered = Callers
    /\ \E c \in Callers : cid[c] = <<0, 0, 0, 1>>
    /\ \E c \in Callers : cid[c] = <<0, 0, 0, 2>>

----------------------------------------------------------------------------
(* C19: registering a call under an id that is already a key of the        *)
(* Correlation Table (such as the stale entry of an abandoned call, met    *)
(* again after the ids have wrapped) fails and never replaces the slot     *)
(* that is there: no new call overwrites the slot of an earlier call with  *)
(* the same id.                                                            *)
(* The code inserts with HashMap::insert (line 216), which replaces the    *)
(* sender stored under the id, and the new call goes on.                   *)

C19_RegisterNeverReplaces ==
    [][\A c \in Callers :
          (Registers(c) /\ cid'[c] \in DOMAIN call_stack)
              => /\ call_stack' = call_stack
                 /\ pc'[c] = "done"
                 /\ result'[c].st \notin {"none", "ok"}]_vars

----------------------------------------------------------------------------
(* C20: an Error frame whose body is not valid UTF-8 is dropped without    *)
(* being fatal to the dispatch loop: its bytes are consumed, no call is    *)
(* resolved by it, and the frames after it are decoded and routed as       *)
(* usual.                                                                  *)

C20_BadUtf8ErrorDropped ==
    [][(Decodes /\ Decoded.flag = FlagError /\ ~Utf8Valid(Decoded.body))
       => /\ UNCHANGED <<call_stack, slot, result, pc, uidLock>>
          /\ GoesOn(Decoded)]_vars

\* an Error frame that is not UTF-8 came for a waiting call and was
\* dropped, and the Reply after it was returned to that call
C20_Witness ==
    \E c \in Callers : \E i \in DOMAIN routed :
        /\ i + 1 \in DOMAIN routed
        /\ routed[i].what = "bad_utf8" /\ routed[i].frame.id = cid[c]
        /\ routed[i + 1].what = "resolved" /\ routed[i + 1].frame.id = cid[c]
        /\ pc[c] = "done" /\ result[c].st = "ok"

----------------------------------------------------------------------------
(* C21: frames are decoded and routed in strict arrival order: if the      *)
(* bytes of frame A come before those of frame B on the stream, A is       *)
(* routed (its request put on the handler's channel) before B; and the     *)
(* Inbound Buffer only ever changes by read bytes being appended at the    *)
(* back and decoded bytes being removed from the front.                    *)

\* the frame decoded is the next one in arrival order, its bytes leave the
\* front of the buffer, and it is on its handler's channel, behind what was
\* there, when the step is over
C21_DecodeStep ==
    Decodes =>
        /\ Len(routed) < Len(injected)
        /\ Decoded = injected[Len(routed) + 1]
        /\ buffer = Wire(Decoded) \o buffer'
        /\ (Decoded.flag = FlagRequest /\ Decoded.kind \in DOMAIN listener)
               => queue' = [queue EXCEPT ![listener[Decoded.kind]] =
                              Append(@, [id |-> Decoded.id, body |-> Decoded.body])]

\* the buffer changes in a decoding step or by a read added at its back
C21_BufferStep ==
    buffer' # buffer =>
        \/ Decodes
        \/ \E n \in 1 .. Len(win) :
               /\ buffer' = buffer \o SubSeq(win, 1, n)
               /\ win' = SubSeq(win, n + 1, Len(win))

C21_ArrivalOrder == [][C21_DecodeStep /\ C21_BufferStep]_vars

\* two requests that differ were read in pieces and are on the handler's
\* channel in the order they came
C21_Witness ==
    \E h \in Handlers :
        /\ Len(injected) = 2 /\ injected[1] # injected[2]
        /\ Len(routed) = 2
        /\ Len(queue[h]) = 2
        /\ queue[h][1].id = injected[1].id /\ queue[h][2].id = injected[2].id

----------------------------------------------------------------------------
(* C22: whenever call returns to its caller, by whatever path (reply       *)
(* received, Error frame received, the request failing to serialize, the   *)
(* write failing in send), the Correlation Table holds no entry for the id *)
(* that call allocated.                                                    *)
(* The code inserts the entry (line 216) before it serializes the request  *)
(* (line 218); when that fails `?` returns and nothing removes the entry.  *)

\* the entry call c registered is in the table
HoldsEntryOf(c) == cid[c] \in DOMAIN call_stack /\ call_stack[cid[c]] = c

C22_ReturnedCallLeavesNoEntry ==
    \A c \in Callers : pc[c] = "done" => ~HoldsEntryOf(c)

----------------------------------------------------------------------------
(* C23: if run is invoked twice on one transport, so that two dispatch     *)
(* loops call poll concurrently, every frame that comes is still decoded   *)
(* and routed exactly once and in arrival order: the two loops never       *)
(* decode from the Inbound Buffer at the same time.                        *)

\* the loops that are between their read and the end of their cycle
Decoding == {l \in Loops : dpc[l] = "decode"}

C23_LoopsTakeTurns ==
    /\ Cardinality(Decoding) <= 1
    /\ \A l \in Loops : l \in Decoding <=> bufLock = l
    /\ IsPrefix(RoutedFrames, injected)
    /\ WireOf(RoutedFrames) \o buffer = BytesRead

\* both loops run; one is in its cycle, having decoded a frame and holding
\* the start of the next, while the other waits with bytes on the stream
C23_Witness ==
    \E k, l \in Loops :
        /\ k # l
        /\ dpc[k] = "decode" /\ dpc[l] = "idle"
        /\ Len(routed) >= 1 /\ buffer # <<>>
        /\ win # <<>>

----------------------------------------------------------------------------
(* C24, as claimed: for a single bound kind, requests are handled one at a *)
(* time in the order their Request frames were routed, so the Reply/Error  *)
(* frames written for two requests of the same kind are on the stream in   *)
(* the order in which those requests came.                                 *)
(* Each bind spawns a task of its own (line 173), and the task of an       *)
(* earlier bind goes on with what its channel holds: after a second bind   *)
(* to the kind two tasks handle its requests side by side.                 *)

IdsOf(frames) == [i \in DOMAIN frames |-> frames[i].id]

\* the ids of the answers written for kind k, in the order written
AnswerIds(k) ==
    LET Answers(fr) == IsAnswer(fr) /\ fr.kind = k
    IN  IdsOf(SelectSeq(sent, Answers))

\* the ids of the requests of kind k given to a handler, in the order routed
QueuedIds(k) ==
    LET Given(r) == Queued(r) /\ r.frame.kind = k
        given == SelectSeq(routed, Given)
    IN  [i \in DOMAIN given |-> given[i].frame.id]

\* the handler tasks of kind k that have taken a request and not yet
\* written its answer whole
Handling(k) == {h \in Handlers : hkind[h] = k /\ pc[h] \in {"send", "body"}}

InArrivalOrder(k) ==
    /\ Cardinality(Handling(k)) <= 1
    /\ IsPrefix(AnswerIds(k), QueuedIds(k))

C24_AnswersInArrivalOrder == \A k \in Kinds : InArrivalOrder(k)

(* C24, amended: for a kind that has been bound once, requests are handled *)
(* one at a time in the order their Request frames were routed, so the     *)
(* Reply/Error frames written for two requests of the kind are on the      *)
(* stream in the order in which those requests came.                       *)

C24_AnswersInOrderWhenBoundOnce ==
    \A k \in Kinds : Cardinality(BoundTo(k)) <= 1 => InArrivalOrder(k)

\* a kind bound once was sent two requests that differ, both were on the
\* channel together, and both answers are written
C24_Witness ==
    /\ Cardinality(BoundTo(1)) = 1
    /\ \A h \in Handlers : pc[h] = "unbound" \/ pc[h] = "recv"
    /\ Len(AnswerIds(1)) = 2
    /\ AnswerIds(1)[1] # AnswerIds(1)[2]
    /\ AnswerIds(1) = QueuedIds(1)

====
